---- MODULE Spec2Model ----
(***************************************************************************)
(* Model of language_model.py: the n-gram Language_Model (build_model,     *)
(* generate, evaluate_text, smooth) and the Spell_Checker built on it.     *)
(*                                                                         *)
(* A Python str is a sequence of one-character strings, a token is a str,  *)
(* an n-gram is a sequence of tokens, a dict is a function whose DOMAIN is *)
(* its key set, and a float p/q is the pair <<p, q>>.  A call is one       *)
(* action; it records the call in op/args and its outcome in ret/exc.      *)
(***************************************************************************)
EXTENDS Integers, Sequences, FiniteSets, TLC

VARIABLES
    n,                  \* Language_Model.n (line 280)
    chars,              \* Language_Model.chars (line 281)
    model_dict,         \* Language_Model.model_dict (line 282)
    token_frequency,    \* Language_Model.token_frequency (line 284)
    total_token_count,  \* Language_Model.total_token_count (line 285)
    lm,                 \* Spell_Checker.lm (line 28): TRUE the model, FALSE None
    error_tables,       \* Spell_Checker.error_tables (line 29)
    builds,             \* the texts given to build_model so far
    op,                 \* the method called, "none" between calls
    args,               \* its arguments
    ret,                \* the value it returns
    exc,                \* the exception it raises, "none" if it returns
    output              \* the list it builds: corrected_tokens (line 238),
                        \* output of generate (line 371)

lm_vars == <<n, chars, model_dict, token_frequency, total_token_count>>
sc_vars == <<lm, error_tables>>
vars == <<n, chars, model_dict, token_frequency, total_token_count,
          lm, error_tables, builds, op, args, ret, exc, output>>

(***************************************************************************)
(* Bounds of the model.                                                    *)
(***************************************************************************)
MaxN == 3
MaxTextLen == 1
MaxBuilds == 2
MaxGen == 2
MaxCtxLen == 2
MaxNgramLen == 2
MaxTokens == 2
NumLetters == 2
MaxEditLen == 3

(***************************************************************************)
(* Python values.                                                          *)
(***************************************************************************)
None == <<"None">>
START == <<"<", "s", ">">>
END == <<"<", "/", "s", ">">>
EmptyDict == [k \in {} |-> 0]

Range(s) == {s[i] : i \in DOMAIN s}

SeqsUpTo(S, k) == UNION {[1..l -> S] : l \in 0..k}

Min(a, b) == IF a < b THEN a ELSE b

\* seq[:k] for k >= 0
Prefix(s, k) == SubSeq(s, 1, Min(k, Len(s)))

\* seq[-k:] for k >= 0; seq[-0:] is seq[0:], the whole sequence
PySliceLast(s, k) ==
    IF k = 0 \/ k >= Len(s) THEN s ELSE SubSeq(s, Len(s) - k + 1, Len(s))

\* [x] * k, empty for k <= 0
Repeat(x, k) == [i \in 1..k |-> x]

RECURSIVE SplitFrom(_, _, _)
SplitFrom(s, i, cur) ==
    IF i > Len(s)
    THEN IF cur = <<>> THEN <<>> ELSE <<cur>>
    ELSE IF s[i] = " "
         THEN IF cur = <<>> THEN SplitFrom(s, i + 1, <<>>)
              ELSE <<cur>> \o SplitFrom(s, i + 1, <<>>)
         ELSE SplitFrom(s, i + 1, Append(cur, s[i]))

\* text.split()
split(text) == SplitFrom(text, 1, <<>>)

\* list(text)
list(text) == [i \in 1..Len(text) |-> <<text[i]>>]

RECURSIVE join(_, _)
\* sep.join(toks)
join(sep, toks) ==
    IF toks = <<>> THEN <<>>
    ELSE IF Len(toks) = 1 THEN toks[1]
    ELSE toks[1] \o sep \o join(sep, Tail(toks))

\* p < q for floats p, q with positive denominators
Less(p, q) == p[1] * q[2] < q[1] * p[2]

RECURSIVE SumOver(_, _)
SumOver(d, S) ==
    IF S = {} THEN 0
    ELSE LET k == CHOOSE x \in S : TRUE IN d[k] + SumOver(d, S \ {k})

\* sum(d.values())
sum_values(d) == SumOver(d, DOMAIN d)

\* d.get(k, 0): no key is inserted
get(d, k) == IF k \in DOMAIN d THEN d[k] ELSE 0

\* for x in seq: d[x] += 1   (d a defaultdict(int))
AddCounts(d, seq) ==
    [k \in (DOMAIN d) \cup Range(seq) |->
        get(d, k) + Cardinality({i \in DOMAIN seq : seq[i] = k})]

(***************************************************************************)
(* The caller is sequential: a method is called when no call is pending,   *)
(* and Return hands its result back before the next call.                  *)
(***************************************************************************)
Ready == op = "none"

Return ==
    /\ ~ Ready
    /\ op' = "none"
    /\ args' = <<>>
    /\ ret' = None
    /\ exc' = "none"
    /\ output' = <<>>
    /\ UNCHANGED <<lm_vars, sc_vars, builds>>

(***************************************************************************)
(* Language_Model                                                          *)
(***************************************************************************)
\* words = list(text) if self.chars else text.split()
Tokenize(text) == IF chars THEN list(text) ELSE split(text)

Pad_no_end_marker(words) == Repeat(START, n - 1) \o words

\* ['<s>'] * (self.n - 1) + words + ['</s>']
Pad(words) == Repeat(START, n - 1) \o words \o <<END>>

\* tuple(words[i:i + n]) for i in range(len(words) - n + 1)
BuildNgrams(words) ==
    [i \in 1..(Len(words) - n + 1) |-> SubSeq(words, i, i + n - 1)]

\* the texts given to build_model and evaluate_text
TextWords == {<<"a">>, <<"b">>}
Texts == {join(<<" ">>, ws) : ws \in SeqsUpTo(TextWords, MaxTextLen)}

build_model(text) ==
    /\ Ready
    /\ Len(builds) < MaxBuilds
    /\ LET words == Tokenize(text)
           tf == AddCounts(token_frequency, words)
       IN /\ token_frequency' = tf
          /\ total_token_count' = sum_values(tf)
          /\ model_dict' = AddCounts(model_dict, BuildNgrams(Pad(words)))
    /\ builds' = Append(builds, text)
    /\ op' = "build_model"
    /\ args' = <<text>>
    /\ ret' = None
    /\ exc' = "none"
    /\ output' = <<>>
    /\ UNCHANGED <<n, chars, lm, error_tables>>

\* (count + 1) / (sum(model_dict.values()) + len(model_dict))
smooth_no_add_one(ngram) ==
    <<get(model_dict, ngram),
      sum_values(model_dict) + Cardinality(DOMAIN model_dict)>>

smooth_value(ngram) ==
    <<get(model_dict, ngram) + 1,
      sum_values(model_dict) + Cardinality(DOMAIN model_dict)>>

NgramTokens == {<<"a">>, <<"b">>, START, END}
NgramInputs == UNION {[1..l -> NgramTokens] : l \in 1..MaxNgramLen}

smooth(ngram) ==
    /\ Ready
    /\ op' = "smooth"
    /\ args' = <<ngram>>
    /\ LET p == smooth_value(ngram)
       IN IF p[2] = 0
          THEN ret' = None /\ exc' = "ZeroDivisionError"
          ELSE ret' = p /\ exc' = "none"
    /\ output' = <<>>
    /\ UNCHANGED <<lm_vars, sc_vars, builds>>

\* _check_for_oov
check_for_oov(tokens) ==
    ~ (\A i \in DOMAIN tokens : tokens[i] \in DOMAIN token_frequency)

\* the raw probability of each window, in order, or the smoothed one
EvalProbs(text) ==
    LET toks == Tokenize(text)
        is_smooth == check_for_oov(toks)
        words == Pad(toks)
    IN [j \in 1..(Len(words) - (n - 1)) |->
          LET i == (n - 1) + (j - 1)
              ngram == SubSeq(words, (i - n + 1) + 1, i + 1)
          IN IF is_smooth THEN smooth_value(ngram)
             ELSE <<get(model_dict, ngram), total_token_count>>]

\* log_prob as the sequence of the probabilities whose logarithms are added:
\* math.log(0) raises ValueError and the handler adds 0
LogTerms(probs) ==
    LET RECURSIVE Keep(_)
        Keep(i) == IF i > Len(probs) THEN <<>>
                   ELSE IF probs[i][1] = 0 THEN Keep(i + 1)
                   ELSE <<probs[i]>> \o Keep(i + 1)
    IN Keep(1)

LM_evaluate_text(text) ==
    LET probs == EvalProbs(text)
    IN IF \E i \in DOMAIN probs : probs[i][2] = 0
       THEN [ret |-> None, exc |-> "ZeroDivisionError"]
       ELSE [ret |-> LogTerms(probs), exc |-> "none"]

evaluate_text(text) ==
    /\ Ready
    /\ op' = "evaluate_text"
    /\ args' = <<text>>
    /\ LET r == LM_evaluate_text(text)
       IN ret' = r.ret /\ exc' = r.exc
    /\ output' = <<>>
    /\ UNCHANGED <<lm_vars, sc_vars, builds>>

\* the contexts given to generate: None, or a str
CtxWords == {<<"a">>, START, END}
Contexts == {join(<<" ">>, ws) : ws \in SeqsUpTo(CtxWords, MaxCtxLen)}

\* the while loop of generate: the outputs the random choices can produce
RECURSIVE GenLoop(_, _, _)
GenLoop(context, out, length) ==
    IF ~ (Len(out) < length)
    THEN {[output |-> out, exc |-> "none"]}
    ELSE LET counts == {g[Len(g)] : g \in
                          {k \in DOMAIN model_dict :
                              SubSeq(k, 1, Len(k) - 1) = context}}
         IN IF counts = {}
            THEN {[output |-> out, exc |-> "none"]}
            ELSE IF total_token_count = 0
                 THEN {[output |-> out, exc |-> "ZeroDivisionError"]}
                 ELSE UNION {GenLoop(SubSeq(context, 2, Len(context)) \o <<w>>,
                                     Append(out, w), length) : w \in counts}

\* if output[-1] == '</s>': output.pop()
PopEnd(out) ==
    IF out[Len(out)] = END THEN SubSeq(out, 1, Len(out) - 1) ELSE out

RECURSIVE StripStart(_)
\* while output and output[0] == '<s>': output.pop(0)
StripStart(out) ==
    IF out # <<>> /\ out[1] = START THEN StripStart(Tail(out)) ELSE out

\* ''.join(output) if self.chars else ' '.join(output)
JoinOutput(out) == IF chars THEN join(<<>>, out) ELSE join(<<" ">>, out)

\* the contexts generate can start from
StartContexts(context) ==
    IF context = None
    THEN {SubSeq(k, 1, Len(k) - 1) : k \in DOMAIN model_dict}
    ELSE {IF chars THEN list(context) ELSE split(context)}

generate(context, length) ==
    /\ Ready
    /\ op' = "generate"
    /\ args' = <<context, length>>
    /\ IF StartContexts(context) = {}
       THEN ret' = None /\ exc' = "IndexError" /\ output' = <<>>
       ELSE \E c0 \in StartContexts(context) :
              LET padded == Repeat(START, n - Len(c0)) \o c0
                  ctx == PySliceLast(padded, n - 1)
              IN \E r \in GenLoop(ctx, ctx, length) :
                   IF r.exc # "none"
                   THEN ret' = None /\ exc' = r.exc /\ output' = r.output
                   ELSE LET out == StripStart(PopEnd(r.output))
                        IN /\ output' = out
                           /\ ret' = JoinOutput(out)
                           /\ exc' = "none"
    /\ UNCHANGED <<lm_vars, sc_vars, builds>>

(***************************************************************************)
(* Spell_Checker                                                           *)
(***************************************************************************)
\* 'abcdefghijklmnopqrstuvwxyz'; all_letters is the whole of it, letters its
\* first NumLetters letters
Alphabet == <<"a", "b", "c", "d", "e", "f", "g", "h", "i", "j", "k", "l", "m",
              "n", "o", "p", "q", "r", "s", "t", "u", "v", "w", "x", "y", "z">>
letters == {Alphabet[i] : i \in 1..NumLetters}
all_letters == {Alphabet[i] : i \in DOMAIN Alphabet}

\* PUNCTUATIONS and NUMBERS of the constants module
PUNCTUATIONS == {<<".">>, <<",">>, <<"!">>, <<"?">>}
NUMBERS == {<<"0">>, <<"1">>, <<"2">>, <<"3">>, <<"4">>, <<"5">>, <<"6">>,
            <<"7">>, <<"8">>, <<"9">>}

is_punctuation_or_number(token) == token \in PUNCTUATIONS \/ token \in NUMBERS

\* edits1 with every split, delete, transpose, replace and insert of the
\* code, but replaces that skip the letter already in place
edits1_replace_other_letter(token, alphabet) ==
    LET L(i) == SubSeq(token, 1, i)
        R(i) == SubSeq(token, i + 1, Len(token))
        splits == 0..Len(token)
        deletes == {L(i) \o Tail(R(i)) : i \in {j \in splits : R(j) # <<>>}}
        transposes == {L(i) \o <<R(i)[2], R(i)[1]>> \o SubSeq(R(i), 3, Len(R(i))) :
                          i \in {j \in splits : Len(R(j)) > 1}}
        replaces == UNION {{L(i) \o <<c>> \o Tail(R(i)) : c \in alphabet \ {R(i)[1]}} :
                              i \in {j \in splits : R(j) # <<>>}}
        inserts == UNION {{L(i) \o <<c>> \o R(i) : c \in alphabet} : i \in splits}
    IN deletes \cup transposes \cup replaces \cup inserts

\* the body of edits1, its local 'letters' passed as alphabet; the lists
\* deletes, transposes, replaces and inserts are concatenated and turned
\* into a set, so each is modelled by the set of its elements
edits1_over(token, alphabet) ==
    LET L(i) == SubSeq(token, 1, i)
        R(i) == SubSeq(token, i + 1, Len(token))
        splits == 0..Len(token)
        deletes == {L(i) \o Tail(R(i)) : i \in {j \in splits : R(j) # <<>>}}
        transposes == {L(i) \o <<R(i)[2], R(i)[1]>> \o SubSeq(R(i), 3, Len(R(i))) :
                          i \in {j \in splits : Len(R(j)) > 1}}
        replaces == UNION {{L(i) \o <<c>> \o Tail(R(i)) : c \in alphabet} :
                              i \in {j \in splits : R(j) # <<>>}}
        inserts == UNION {{L(i) \o <<c>> \o R(i) : c \in alphabet} : i \in splits}
    IN deletes \cup transposes \cup replaces \cup inserts

\* edits1 as spell_check uses it, over the cut alphabet
edits1(token) == edits1_over(token, letters)

\* the strings the generator of edits2 yields
edits2(word) == UNION {edits1(e1) : e1 \in edits1(word)}

\* set(w for w in words if w in tf), tf the token_frequency of the model
known_in(tf, words) == {w \in words : w \in DOMAIN tf}

\* tf[k] for every k of keys, tf a defaultdict(int): a missing key is
\* inserted with the value 0
Lookup(tf, keys) == [k \in (DOMAIN tf) \cup keys |-> get(tf, k)]

\* max(alpha, p)
MaxFloat(alpha, p) == IF Less(alpha, p) THEN p ELSE alpha

\* generate_scores_with_lm: the scores, the token_frequency it leaves and the
\* exception it raises; the candidates are visited in any order
lm_scores(tf, candidates, token, alpha) ==
    IF candidates = {}
    THEN {[scores |-> EmptyDict, tf |-> tf, exc |-> "none"]}
    ELSE IF ~ lm
    THEN {[scores |-> EmptyDict, tf |-> tf, exc |-> "AttributeError"]}
    ELSE IF total_token_count = 0
    THEN {[scores |-> EmptyDict, tf |-> Lookup(tf, {c}),
           exc |-> "ZeroDivisionError"] : c \in candidates}
    ELSE {[scores |-> [c \in candidates |->
                         IF c = token
                         THEN MaxFloat(alpha, <<get(tf, c), total_token_count>>)
                         ELSE <<get(tf, c), total_token_count>>],
           tf |-> Lookup(tf, candidates), exc |-> "none"]}

\* the keys max(candidates_scores, key=candidates_scores.get) can return
ArgMax(scores) ==
    {c \in DOMAIN scores : \A d \in DOMAIN scores : ~ Less(scores[c], scores[d])}

\* _generate_scores_with_noisy_channel: the keys of the dict it returns, each
\* with the term its score is computed from (spell_check passes it the
\* known_candidates that generate_scores_with_lm has just scored)
noisy_channel_scores(token, alpha, candidates) ==
    [c \in candidates |-> IF c = token THEN <<"log", alpha>> ELSE <<"noisy", c>>]

\* CorrectToken with the known words of edits1 and of edits2 scored as one
\* pool of candidates, instead of edits2 being tried only when edits1 has
\* no known word
CorrectToken_pooled_edits(tf, token, alpha) ==
    IF is_punctuation_or_number(token)
    THEN {[token |-> token, tf |-> tf, exc |-> "none"]}
    ELSE IF ~ lm
    THEN {[token |-> token, tf |-> tf, exc |-> "AttributeError"]}
    ELSE IF known_in(tf, {token}) # {}
    THEN {[token |-> token, tf |-> tf, exc |-> "none"]}
    ELSE UNION {
      IF r.exc # "none"
      THEN {[token |-> token, tf |-> r.tf, exc |-> r.exc]}
      ELSE IF DOMAIN r.scores # {}
      THEN {[token |-> c, tf |-> r.tf, exc |-> "none"] : c \in ArgMax(r.scores)}
      ELSE {[token |-> token, tf |-> r.tf, exc |-> "none"]}
      : r \in lm_scores(tf, known_in(tf, edits1(token) \cup edits2(token)),
                        token, alpha)}

\* CorrectToken without the `or self.known([token])` of its first test
CorrectToken_without_known_test(tf, token, alpha) ==
    IF is_punctuation_or_number(token)
    THEN {[token |-> token, tf |-> tf, exc |-> "none"]}
    ELSE UNION {
      IF r1.exc # "none"
      THEN {[token |-> token, tf |-> r1.tf, exc |-> r1.exc]}
      ELSE IF DOMAIN r1.scores # {}
      THEN {[token |-> c, tf |-> r1.tf, exc |-> "none"] : c \in ArgMax(r1.scores)}
      ELSE {[token |-> token, tf |-> r1.tf, exc |-> "none"]}
      : r1 \in lm_scores(tf, known_in(tf, edits1(token)), token, alpha)}

\* one iteration of the loop of spell_check: the token appended, the
\* token_frequency left and the exception raised
CorrectToken(tf, token, alpha) ==
    IF is_punctuation_or_number(token)
    THEN {[token |-> token, tf |-> tf, exc |-> "none"]}
    ELSE IF ~ lm
    THEN {[token |-> token, tf |-> tf, exc |-> "AttributeError"]}
    ELSE IF known_in(tf, {token}) # {}
    THEN {[token |-> token, tf |-> tf, exc |-> "none"]}
    ELSE UNION {
      IF r1.exc # "none"
      THEN {[token |-> token, tf |-> r1.tf, exc |-> r1.exc]}
      ELSE IF DOMAIN r1.scores # {}
      THEN {[token |-> c, tf |-> r1.tf, exc |-> "none"] : c \in ArgMax(r1.scores)}
      ELSE UNION {
        IF r2.exc # "none"
        THEN {[token |-> token, tf |-> r2.tf, exc |-> r2.exc]}
        ELSE IF DOMAIN r2.scores # {}
        THEN {[token |-> c, tf |-> r2.tf, exc |-> "none"] : c \in ArgMax(r2.scores)}
        ELSE LET scores == noisy_channel_scores(token, alpha, DOMAIN r2.scores)
             IN IF DOMAIN scores = {}
                THEN {[token |-> token, tf |-> r2.tf, exc |-> "none"]}
                ELSE {[token |-> c, tf |-> r2.tf, exc |-> "none"] : c \in DOMAIN scores}
        : r2 \in lm_scores(r1.tf, known_in(r1.tf, edits2(token)), token, alpha)}
      : r1 \in lm_scores(tf, known_in(tf, edits1(token)), token, alpha)}

RECURSIVE CorrectTokens(_, _, _, _)
\* the loop of spell_check over the tokens not yet visited
CorrectTokens(tf, tokens, alpha, corrected) ==
    IF tokens = <<>>
    THEN {[corrected |-> corrected, tf |-> tf, exc |-> "none"]}
    ELSE UNION {
      IF r.exc # "none"
      THEN {[corrected |-> corrected, tf |-> r.tf, exc |-> r.exc]}
      ELSE CorrectTokens(r.tf, Tail(tokens), alpha, Append(corrected, r.token))
      : r \in CorrectToken(tf, Head(tokens), alpha)}

\* spell_check(text, alpha), tokens being word_tokenize(text)
spell_check(tokens, alpha) ==
    /\ Ready
    /\ op' = "spell_check"
    /\ args' = <<tokens, alpha>>
    /\ \E r \in CorrectTokens(token_frequency, tokens, alpha, <<>>) :
         /\ token_frequency' = r.tf
         /\ output' = r.corrected
         /\ exc' = r.exc
         /\ ret' = IF r.exc = "none" THEN join(<<" ">>, r.corrected) ELSE None
    /\ UNCHANGED <<n, chars, model_dict, total_token_count, sc_vars, builds>>

generate_scores_with_lm(candidates, token, alpha) ==
    /\ Ready
    /\ op' = "generate_scores_with_lm"
    /\ args' = <<candidates, token, alpha>>
    /\ \E r \in lm_scores(token_frequency, candidates, token, alpha) :
         /\ token_frequency' = r.tf
         /\ exc' = r.exc
         /\ ret' = IF r.exc = "none" THEN r.scores ELSE None
    /\ output' = <<>>
    /\ UNCHANGED <<n, chars, model_dict, total_token_count, sc_vars, builds>>

known(words) ==
    /\ Ready
    /\ op' = "known"
    /\ args' = <<words>>
    /\ IF words # {} /\ ~ lm
       THEN ret' = None /\ exc' = "AttributeError"
       ELSE ret' = known_in(token_frequency, words) /\ exc' = "none"
    /\ output' = <<>>
    /\ UNCHANGED <<lm_vars, sc_vars, builds>>

\* the static method edits1 called on a token, with the whole alphabet
call_edits1(token) ==
    /\ Ready
    /\ op' = "edits1"
    /\ args' = <<token>>
    /\ ret' = edits1_over(token, all_letters)
    /\ exc' = "none"
    /\ output' = <<>>
    /\ UNCHANGED <<lm_vars, sc_vars, builds>>

add_language_model(new_lm) ==
    /\ Ready
    /\ lm' = new_lm
    /\ op' = "add_language_model"
    /\ args' = <<new_lm>>
    /\ ret' = None
    /\ exc' = "none"
    /\ output' = <<>>
    /\ UNCHANGED <<lm_vars, error_tables, builds>>

add_error_tables(tables) ==
    /\ Ready
    /\ error_tables' = tables
    /\ op' = "add_error_tables"
    /\ args' = <<tables>>
    /\ ret' = None
    /\ exc' = "none"
    /\ output' = <<>>
    /\ UNCHANGED <<lm_vars, lm, builds>>

Spell_Checker_evaluate_text(text) ==
    /\ Ready
    /\ op' = "Spell_Checker.evaluate_text"
    /\ args' = <<text>>
    /\ IF lm
       THEN LET r == LM_evaluate_text(text) IN ret' = r.ret /\ exc' = r.exc
       ELSE ret' = None /\ exc' = "ValueError"
    /\ output' = <<>>
    /\ UNCHANGED <<lm_vars, sc_vars, builds>>

\* s[i] for a Python index i, -1 being the last element
At(s, i) == IF i < 0 THEN s[Len(s) + i + 1] ELSE s[i + 1]

Minimum(S) == CHOOSE x \in S : \A y \in S : x <= y

\* sorted(a) == sorted(b)
SameLetters(a, b) ==
    \A c \in Range(a) \cup Range(b) :
        Cardinality({i \in DOMAIN a : a[i] = c})
            = Cardinality({i \in DOMAIN b : b[i] = c})

check_error_type(token, candidate) ==
    IF Len(token) < Len(candidate) THEN "deletion"
    ELSE IF Len(token) > Len(candidate) THEN "insertion"
    ELSE IF SameLetters(token, candidate) THEN "transposition"
    ELSE "substitution"

insertion_chars(token, candidate) ==
    LET D == {i \in 0..(Len(candidate) - 1) : At(candidate, i) # At(token, i)}
    IN IF D # {}
       THEN [chars |-> <<At(token, Minimum(D) - 1), At(token, Minimum(D))>>,
             exc |-> "none"]
       ELSE IF candidate = <<>>
       THEN [chars |-> None, exc |-> "UnboundLocalError"]
       ELSE [chars |-> <<At(token, Len(candidate) - 1), At(token, Len(candidate))>>,
             exc |-> "none"]

deletion_chars(token, candidate) ==
    LET D == {i \in 0..(Len(token) - 1) : At(token, i) # At(candidate, i)}
    IN IF D # {}
       THEN [chars |-> <<At(token, Minimum(D) - 1), At(candidate, Minimum(D))>>,
             exc |-> "none"]
       ELSE IF token = <<>>
       THEN [chars |-> None, exc |-> "UnboundLocalError"]
       ELSE [chars |-> <<At(candidate, Len(token) - 1), At(candidate, Len(token))>>,
             exc |-> "none"]

transposition_chars(token, candidate) ==
    LET D == {i \in 0..(Len(token) - 1) : At(candidate, i) # At(token, i)}
    IN IF D = {}
       THEN [chars |-> None, exc |-> "none"]
       ELSE IF Minimum(D) + 1 >= Len(token)
       THEN [chars |-> None, exc |-> "IndexError"]
       ELSE [chars |-> <<At(token, Minimum(D) + 1), At(token, Minimum(D))>>,
             exc |-> "none"]

substitution_chars(token, candidate) ==
    LET D == {i \in 0..(Min(Len(candidate), Len(token)) - 1) :
                 At(candidate, i) # At(token, i)}
    IN IF D = {}
       THEN [chars |-> None, exc |-> "none"]
       ELSE [chars |-> <<At(token, Minimum(D)), At(candidate, Minimum(D))>>,
             exc |-> "none"]

\* _check_characters_change(candidate, token)
check_characters_change(candidate, token) ==
    LET error_type == check_error_type(token, candidate)
        r == CASE error_type = "insertion" -> insertion_chars(token, candidate)
               [] error_type = "deletion" -> deletion_chars(token, candidate)
               [] error_type = "transposition" -> transposition_chars(token, candidate)
               [] OTHER -> substitution_chars(token, candidate)
    IN [error_type |-> error_type, chars |-> r.chars, exc |-> r.exc]

\* two_chars in word
IsSubstring(sub, word) ==
    \E i \in 0..(Len(word) - Len(sub)) : SubSeq(word, i + 1, i + Len(sub)) = sub

\* the count of count_chars_in_lm over the token_frequency tf
CountChars(tf, two_chars) ==
    LET hit == {w \in DOMAIN tf : IsSubstring(two_chars, w)}
    IN SumOver(tf, hit)

count_chars_in_lm(two_chars) ==
    /\ Ready
    /\ op' = "count_chars_in_lm"
    /\ args' = <<two_chars>>
    /\ IF ~ lm
       THEN ret' = None /\ exc' = "ValueError"
       ELSE ret' = CountChars(token_frequency, two_chars) /\ exc' = "none"
    /\ output' = <<>>
    /\ UNCHANGED <<lm_vars, sc_vars, builds>>

\* x if x > 0 else 0.0001
Floor(x) == IF x[1] > 0 THEN x ELSE <<1, 10000>>

\* calculate_log_noisy_channel: math.log(P_x_given_t) + math.log(P_t) as the
\* pair <<P_x_given_t, P_t>>, the token_frequency left and the exception
log_noisy_channel(tf, candidate, token) ==
    LET cc == check_characters_change(candidate, token)
        fail(e) == [ret |-> None, tf |-> tf, exc |-> e]
    IN IF cc.exc # "none" THEN fail(cc.exc)
       ELSE IF ~ lm THEN fail("ValueError")
       ELSE IF cc.chars = None /\ DOMAIN tf # {} THEN fail("TypeError")
       ELSE IF error_tables = None THEN fail("TypeError")
       ELSE IF cc.error_type \notin DOMAIN error_tables THEN fail("KeyError")
       ELSE LET count_error_change ==
                    IF cc.chars = None THEN 0 ELSE CountChars(tf, cc.chars)
                count_error_in_table == get(error_tables[cc.error_type], cc.chars)
                P_x_given_t == IF count_error_change # 0
                               THEN <<count_error_in_table, count_error_change>>
                               ELSE <<0, 1>>
                tf2 == Lookup(tf, {candidate})
            IN IF total_token_count = 0
               THEN [ret |-> None, tf |-> tf2, exc |-> "ZeroDivisionError"]
               ELSE [ret |-> <<Floor(P_x_given_t),
                               Floor(<<tf2[candidate], total_token_count>>)>>,
                     tf |-> tf2, exc |-> "none"]

calculate_log_noisy_channel(candidate, token) ==
    /\ Ready
    /\ op' = "calculate_log_noisy_channel"
    /\ args' = <<candidate, token>>
    /\ LET r == log_noisy_channel(token_frequency, candidate, token)
       IN /\ token_frequency' = r.tf
          /\ ret' = r.ret
          /\ exc' = r.exc
    /\ output' = <<>>
    /\ UNCHANGED <<n, chars, model_dict, total_token_count, sc_vars, builds>>

\* the arguments given to the operations of Spell_Checker
SpellTokens == {<<"a">>, <<"a", "b">>, <<"b", "b">>, <<",">>}
TokenLists == SeqsUpTo(SpellTokens, MaxTokens)
Alphas == {<<1, 2>>, <<95, 100>>}
ScoreWords == {<<"a">>, <<"a", "b">>}
NoisyWords == {<<>>, <<"a">>, <<"a", "b">>}
TwoChars == {<<"a">>, <<"a", "b">>}
ErrorKinds == {"insertion", "deletion", "substitution", "transposition"}
ErrorTables ==
    {[k \in ErrorKinds |-> IF k = "deletion" THEN (<<"a", "b">> :> 1) ELSE EmptyDict]}

Init ==
    /\ n \in 1..MaxN
    /\ chars \in BOOLEAN
    /\ model_dict = EmptyDict
    /\ token_frequency = EmptyDict
    /\ total_token_count = 0
    /\ lm \in BOOLEAN
    /\ error_tables = None
    /\ builds = <<>>
    /\ op = "none"
    /\ args = <<>>
    /\ ret = None
    /\ exc = "none"
    /\ output = <<>>

InitLM == Init /\ lm = FALSE

NextLM ==
    \/ Return
    \/ \E text \in Texts : build_model(text)
    \/ \E text \in Texts : evaluate_text(text)
    \/ \E ngram \in NgramInputs : smooth(ngram)
    \/ \E context \in Contexts \cup {None}, length \in 0..MaxGen :
          generate(context, length)

SpecLM == InitLM /\ [][NextLM]_vars
InitSC == Init /\ n = 3 /\ chars = FALSE

NextSC ==
    \/ Return
    \/ \E text \in Texts : build_model(text)
    \/ \E new_lm \in BOOLEAN : add_language_model(new_lm)
    \/ \E tables \in ErrorTables : add_error_tables(tables)
    \/ \E text \in Texts : Spell_Checker_evaluate_text(text)
    \/ \E two_chars \in TwoChars : count_chars_in_lm(two_chars)
    \/ \E candidate \in NoisyWords, token \in NoisyWords :
          calculate_log_noisy_channel(candidate, token)
    \/ \E words \in SUBSET ScoreWords : known(words)
    \/ \E candidates \in SUBSET ScoreWords, token \in ScoreWords, alpha \in Alphas :
          generate_scores_with_lm(candidates, token, alpha)
    \/ \E tokens \in TokenLists, alpha \in Alphas : spell_check(tokens, alpha)

SpecSC == InitSC /\ [][NextSC]_vars

\* tokens of lowercase letters handed to edits1
EditLetters == {"a", "b", "c", "s", "t"}
EditTokens == SeqsUpTo(EditLetters, MaxEditLen)

NextEdits ==
    \/ Return
    \/ \E token \in EditTokens : call_edits1(token)

SpecEdits == InitSC /\ [][NextEdits]_vars

(***************************************************************************)
(* Properties of Language_Model                                            *)
(***************************************************************************)
Built == builds # <<>>
LastText == builds[Len(builds)]

\* C3: after any sequence of build_model calls the model state
\* (token_frequency, total_token_count, model_dict) equals the state that
\* build_model of the last text alone leaves on a fresh instance.
C3_BuildReplacesState ==
    Built =>
        LET words == Tokenize(LastText)
        IN /\ token_frequency = AddCounts(EmptyDict, words)
           /\ total_token_count = Len(words)
           /\ model_dict = AddCounts(EmptyDict, BuildNgrams(Pad(words)))

\* C6: generate with a context of k units and a requested length m <= k
\* returns exactly the first m units of the context, joined as the mode
\* requires, whatever the window size.
C6_GeneratePrefix ==
    (op = "generate" /\ Built /\ args[1] # None
        /\ Len(Tokenize(args[1])) >= args[2])
    => /\ exc = "none"
       /\ ret = JoinOutput(Prefix(Tokenize(args[1]), args[2]))

\* C7: the unit sequence generate returns never begins with '<s>' and never
\* ends with '</s>'.
C7_GenerateNoMarkers ==
    (op = "generate" /\ Built /\ exc = "none" /\ output # <<>>)
    => /\ output[1] # START
       /\ output[Len(output)] # END

\* C8: on a built model, evaluate_text of a text whose tokens are all in the
\* vocabulary completes without raising, using count(ngram)/total_token_count
\* for every window, and a window of probability zero adds 0.
C8_EvaluateFinite ==
    (op = "evaluate_text" /\ Built /\ ~ check_for_oov(Tokenize(args[1])))
    => /\ exc = "none"
       /\ LET words == Pad(Tokenize(args[1]))
              raw == [i \in 1..(Len(words) - n + 1) |->
                        <<get(model_dict, SubSeq(words, i, i + n - 1)),
                          total_token_count>>]
          IN ret = SelectSeq(raw, LAMBDA p : p[1] # 0)

\* C9 as stated: after build_model on a fresh model the n-gram counts sum to
\* total_token_count + (n - 1).
C9_SumPlusNMinusOne ==
    Len(builds) = 1 => sum_values(model_dict) = total_token_count + (n - 1)

\* C9, amended: after build_model on a fresh model the n-gram counts sum to
\* total_token_count + 1 (one window per token and one for the end marker),
\* for every window size.
C9_SumPlusOne ==
    Len(builds) = 1 => sum_values(model_dict) = total_token_count + 1

C9_Witness ==
    /\ Len(builds) = 1
    /\ op = "build_model"
    /\ n = 3
    /\ total_token_count = 1
    /\ sum_values(model_dict) = 2

\* C10: on a built model smooth(ngram) is greater than 0 and at most 1 for
\* seen and unseen n-grams, and of two n-grams the one with the higher count
\* has the strictly greater smoothed value.
C10_SmoothRangeAndOrder ==
    (op = "smooth" /\ Built)
    => /\ exc = "none"
       /\ ret[2] > 0
       /\ 0 < ret[1]
       /\ ret[1] <= ret[2]
       /\ \A g \in NgramInputs \cup DOMAIN model_dict :
            /\ get(model_dict, g) < get(model_dict, args[1])
                 => Less(smooth_value(g), ret)
            /\ get(model_dict, g) > get(model_dict, args[1])
                 => Less(ret, smooth_value(g))

C10_Witness ==
    /\ op = "smooth"
    /\ Built
    /\ exc = "none"
    /\ get(model_dict, args[1]) = 2
    /\ \E g \in DOMAIN model_dict : model_dict[g] = 1
    /\ \E g \in NgramInputs : g \notin DOMAIN model_dict
(***************************************************************************)
(* Properties of Spell_Checker                                             *)
(***************************************************************************)
InVocabulary(token) == token \in DOMAIN token_frequency

\* C1: with a language model attached, spell_check of tokens that are each
\* in the vocabulary (a key of token_frequency) or punctuation/number returns
\* the same tokens in the same order, joined by single spaces.
C1_KnownTextUnchanged ==
    (op = "spell_check" /\ lm
        /\ \A i \in DOMAIN args[1] :
              InVocabulary(args[1][i]) \/ is_punctuation_or_number(args[1][i]))
    => /\ exc = "none"
       /\ output = args[1]
       /\ ret = join(<<" ">>, args[1])

C1_Witness ==
    /\ op = "spell_check"
    /\ lm
    /\ Built
    /\ Len(args[1]) = 2
    /\ InVocabulary(args[1][1])
    /\ ~ is_punctuation_or_number(args[1][1])
    /\ is_punctuation_or_number(args[1][2])
    /\ exc = "none"
    /\ ret = <<"a", " ", ",">>

\* C2: on a built model, spell_check replaces every token that is neither
\* punctuation/number nor in the vocabulary, and has a vocabulary word in
\* edits1(token), by such a word of maximal frequency, for any alpha.
C2_BestKnownEdit ==
    (op = "spell_check" /\ lm /\ Built)
    => \A i \in DOMAIN args[1] :
          LET token == args[1][i]
              cands == known_in(token_frequency, edits1(token))
          IN (~ is_punctuation_or_number(token) /\ ~ InVocabulary(token)
                 /\ cands # {})
             => /\ exc = "none"
                /\ output[i] \in cands
                /\ \A c \in cands :
                      token_frequency[c] <= token_frequency[output[i]]

CheckerOps == {"spell_check", "generate_scores_with_lm",
               "calculate_log_noisy_channel", "known", "count_chars_in_lm",
               "Spell_Checker.evaluate_text"}

\* C4: no Spell_Checker operation called on a built model, whatever its
\* arguments, changes token_frequency (its keys included), total_token_count
\* or model_dict.
C4_CheckerLeavesModel ==
    [][(op' \in CheckerOps /\ lm /\ Built)
        => /\ token_frequency' = token_frequency
           /\ DOMAIN token_frequency' = DOMAIN token_frequency
           /\ total_token_count' = total_token_count
           /\ model_dict' = model_dict]_vars

ScoringOps == {"Spell_Checker.evaluate_text", "spell_check", "count_chars_in_lm",
               "calculate_log_noisy_channel", "generate_scores_with_lm"}

\* C5: with no language model attached every scoring operation of
\* Spell_Checker raises the 'language model not set' ValueError.
C5_NoModelValueError ==
    (op \in ScoringOps /\ ~ lm) => exc = "ValueError"

(***************************************************************************)
(* Properties of edits1                                                    *)
(***************************************************************************)
AdjacentEqual(token) == \E i \in 1..(Len(token) - 1) : token[i] = token[i + 1]

\* C11: for a token of L lowercase letters the set returned by edits1 has
\* exactly L + (L-1) + 25*L + 26*(L+1) elements; for "cat" it has exactly
\* 184 elements and contains "bat", "ct", "act" and "cats".
C11_EditsCount ==
    op = "edits1"
    => LET token == args[1]
           L == Len(token)
       IN /\ Cardinality(ret) = L + (L - 1) + 25 * L + 26 * (L + 1)
          /\ token = <<"c", "a", "t">>
             => /\ Cardinality(ret) = 184
                /\ {<<"b", "a", "t">>, <<"c", "t">>, <<"a", "c", "t">>,
                    <<"c", "a", "t", "s">>} \subseteq ret

\* C11 (amended): for a token of L lowercase letters the set returned by
\* edits1 has at most 52*L + 26 elements, and exactly that many when no two
\* adjacent letters of the token are equal; the token itself is one of them
\* when L > 0; for "cat" the set has exactly 182 elements and contains
\* "bat", "ct", "act" and "cats".
C11_EditsDistinctCount ==
    op = "edits1"
    => LET token == args[1]
           L == Len(token)
       IN /\ Cardinality(ret) <= 52 * L + 26
          /\ (Cardinality(ret) = 52 * L + 26) <=> ~ AdjacentEqual(token)
          /\ L > 0 => token \in ret
          /\ token = <<"c", "a", "t">>
             => /\ Cardinality(ret) = 182
                /\ {<<"b", "a", "t">>, <<"c", "t">>, <<"a", "c", "t">>,
                    <<"c", "a", "t", "s">>} \subseteq ret

C11_Witness ==
    /\ op = "edits1"
    /\ args = <<<<"c", "a", "t">>>>
    /\ Cardinality(ret) = 182
    /\ <<"c", "a", "t">> \in ret

====
